---- MODULE Spec2Model ----
(***************************************************************************)
(* TrainedSupervisedModel of healthcareai/trained_models/                  *)
(* trained_supervised_model.py: a fitted model, its fitted pipeline and    *)
(* the column names the model was trained on, scoring a raw dataframe.     *)
(*                                                                         *)
(* A dataframe is a record [columns, index, data]: the column labels in    *)
(* order, the row labels in order, and one sequence of cell values per row *)
(* (data[i][j] is the cell of row i, column j), so that column order, row  *)
(* order and repeated column labels are all visible.                       *)
(***************************************************************************)
EXTENDS Integers, Sequences, FiniteSets, TLC

VARIABLES self, dataframe, files, last

vars == <<self, dataframe, files, last>>

(***************************************************************************)
(* Bounds of the model.                                                    *)
(***************************************************************************)
\* rows of the caller's dataframe
MaxRows == 2
\* largest number_top_features a caller passes
MaxK == 2

(***************************************************************************)
(* Sequence helpers.                                                       *)
(***************************************************************************)
Range(s) == {s[i] : i \in 1..Len(s)}

Min(a, b) == IF a <= b THEN a ELSE b

\* the sequences over S of length at most n
RECURSIVE SeqsUpTo(_, _)
SeqsUpTo(S, n) ==
    IF n = 0 THEN {<<>>}
    ELSE LET shorter == SeqsUpTo(S, n - 1)
         IN shorter \cup {Append(s, x) : s \in {t \in shorter : Len(t) = n - 1}, x \in S}

\* seq occurs in s as a contiguous run
Contains(s, seq) ==
    \E i \in 0..(Len(s) - Len(seq)) :
        \A j \in 1..Len(seq) : s[i + j] = seq[j]

(***************************************************************************)
(* pandas dataframes.                                                      *)
(***************************************************************************)
NoFrame == [columns |-> <<>>, index |-> <<>>, data |-> <<>>]

NRows(df) == Len(df.index)

HasColumn(df, name) == name \in Range(df.columns)

\* positions of the columns labelled name
ColumnPositions(df, name) == {j \in 1..Len(df.columns) : df.columns[j] = name}

FirstPosition(df, name) ==
    CHOOSE j \in ColumnPositions(df, name) : \A i \in ColumnPositions(df, name) : j <= i

\* position of the row labelled label
RowPosition(df, label) == CHOOSE i \in 1..NRows(df) : df.index[i] = label

\* dataframe[names] for labels that are all present: the named columns, in the
\* order of names, every row kept in place
GetItem(df, names) ==
    [columns |-> names,
     index   |-> df.index,
     data    |-> [i \in 1..NRows(df) |->
                     [j \in 1..Len(names) |-> df.data[i][FirstPosition(df, names[j])]]]]

\* the labels of names that dataframe[names] cannot find, in the order of names
MissingLabels(df, names) == SelectSeq(names, LAMBDA c : ~HasColumn(df, c))

\* str() of the KeyError pandas raises for dataframe[names]: it lists every
\* label that is not a column
KeyErrorNotInIndex(missing) == missing \o <<"not in index">>

\* pd.DataFrame(rows, columns=columns, index=index)
DataFrame(rows, columns, index) ==
    [columns |-> columns, index |-> index, data |-> rows]

\* pd.concat([a, b], axis=1, join_axes=[index]): the columns of a then those of
\* b, one row per label of index, each side's row found by its label
concat(a, b, index) ==
    [columns |-> a.columns \o b.columns,
     index   |-> index,
     data    |-> [i \in 1..Len(index) |->
                     a.data[RowPosition(a, index[i])] \o b.data[RowPosition(b, index[i])]]]

\* df[name] = values: every column labelled name takes the values; when there
\* is none, a new last column is added
SetItem(df, name, values) ==
    IF HasColumn(df, name)
    THEN [df EXCEPT !.data =
             [i \in 1..NRows(df) |->
                 [j \in 1..Len(df.columns) |->
                     IF df.columns[j] = name THEN values[i] ELSE df.data[i][j]]]]
    ELSE [columns |-> Append(df.columns, name),
          index   |-> df.index,
          data    |-> [i \in 1..NRows(df) |-> Append(df.data[i], values[i])]]

(***************************************************************************)
(* The collaborators a TrainedSupervisedModel holds: the fitted pipeline,  *)
(* the fitted model and the feature model.  Each is a record; "raises" is  *)
(* the exception the collaborator ends with ("none": it returns).          *)
(***************************************************************************)
\* what the fitted pipeline makes of one cell (a scaling step)
Scaled(v) == v + 100

\* the value the pipeline gives every cell of a column it adds (an imputation)
Imputed == 0 - 1

\* fit_pipeline.transform(df): the columns of pipeline.drops are removed, the
\* columns of pipeline.injects that df lacks are added last, the row index is
\* kept
transform(pipeline, df) ==
    IF pipeline.raises # "none"
    THEN [status |-> pipeline.raises, frame |-> NoFrame, error |-> <<pipeline.key>>]
    ELSE LET kept  == SelectSeq(df.columns, LAMBDA c : c \notin pipeline.drops)
             added == SelectSeq(pipeline.injects, LAMBDA c : c \notin Range(kept))
         IN [status |-> "ok",
             frame  |-> [columns |-> kept \o added,
                         index   |-> df.index,
                         data    |-> [i \in 1..NRows(df) |->
                                        [j \in 1..Len(kept) |->
                                            Scaled(df.data[i][FirstPosition(df, kept[j])])]
                                        \o [j \in 1..Len(added) |-> Imputed]]],
             error  |-> <<>>]

\* the fitted model's value for one prepared row: a weighted sum whose weights
\* go with the column positions, so that the column order matters
RECURSIVE Score(_)
Score(row) ==
    IF row = <<>> THEN 0
    ELSE Score(SubSeq(row, 1, Len(row) - 1)) + Len(row) * row[Len(row)]

\* model.predict(prepared): one value per row, in row order
predict(model, prepared) ==
    IF model.raises # "none"
    THEN [status |-> model.raises, values |-> <<>>, error |-> <<model.key>>]
    ELSE [status |-> "ok",
          values |-> [i \in 1..NRows(prepared) |-> Score(prepared.data[i])],
          error  |-> <<>>]

\* the column positions of row by decreasing value, the earlier column first
\* among equal values; the first k of them
RECURSIVE Ranked(_, _, _)
Ranked(row, k, taken) ==
    IF k = 0 \/ taken = 1..Len(row) THEN <<>>
    ELSE LET free == (1..Len(row)) \ taken
             best == CHOOSE j \in free :
                        \A i \in free : row[j] > row[i] \/ (row[j] = row[i] /\ j <= i)
         IN <<best>> \o Ranked(row, k - 1, taken \cup {best})

\* factors.top_k_features(prepared, feature_model, k): for every row the names
\* of its k most influential columns, the most influential first
top_k_features(prepared, feature_model, k) ==
    IF feature_model.raises # "none"
    THEN [status |-> feature_model.raises, names |-> <<>>, error |-> <<feature_model.key>>]
    ELSE [status |-> "ok",
          names  |-> [i \in 1..NRows(prepared) |->
                        LET r == Ranked(prepared.data[i], k, {})
                        IN [j \in 1..Len(r) |-> prepared.columns[r[j]]]],
          error  |-> <<>>]

(***************************************************************************)
(* How a call ends.  status is "ok" or the name of the exception raised;   *)
(* frame / values hold the dataframe or the list returned; message is the  *)
(* text of the exception (or what was printed), as a sequence of pieces;   *)
(* calls lists the collaborator calls made, in order, each with the column *)
(* labels of the dataframe it was handed; self and dataframe are the       *)
(* object and the caller's dataframe as the call leaves them.              *)
(***************************************************************************)
Returned(frame, values, calls, h, df) ==
    [status |-> "ok", returned |-> TRUE, frame |-> frame, values |-> values,
     message |-> <<>>, calls |-> calls, self |-> h, dataframe |-> df]

Raised(exception, message, calls, h, df) ==
    [status |-> exception, returned |-> FALSE, frame |-> NoFrame, values |-> <<>>,
     message |-> message, calls |-> calls, self |-> h, dataframe |-> df]

\* a call that ended by raising passes its exception on unchanged
Propagate(r) == [r EXCEPT !.returned = FALSE, !.frame = NoFrame, !.values = <<>>]

Call(fn, df) == [fn |-> fn, cols |-> df.columns]

(***************************************************************************)
(* TrainedSupervisedModel.prepare_and_subset                               *)
(***************************************************************************)
\* a text that leaves out the KeyError
error_message_without_ke(column_names, given, ke) ==
    <<"One or more of the columns that the saved trained model needs is not in the dataframe.",
      "Required fields:">> \o column_names
    \o <<"Given fields:">> \o given
    \o <<"Likely missing field(s):">>

\* the text of the HealthcareAIError: the required fields, the given fields and
\* the text of the KeyError
error_message(column_names, given, ke) ==
    <<"One or more of the columns that the saved trained model needs is not in the dataframe.",
      "Required fields:">> \o column_names
    \o <<"Given fields:">> \o given
    \o <<"Likely missing field(s):">> \o ke

\* an except clause that catches every exception
except_clause_every(exception) == TRUE

\* the except clause: the exceptions of the try block that are turned into a
\* HealthcareAIError
except_clause(exception) == exception = "KeyError"

\* no subsetting: the transformed dataframe as it is
subset_nothing(prepared_dataframe, column_names) == prepared_dataframe

\* prepared_dataframe[self.column_names], every name being a column
subset(prepared_dataframe, column_names) == GetItem(prepared_dataframe, column_names)

\* the columns looked up in the caller's dataframe, before the pipeline has run
prepare_and_subset_raw_lookup(h, df) ==
    LET t     == transform(h.fit_pipeline, df)
        calls == <<Call("transform", df)>>
    IN IF t.status # "ok"
       THEN IF except_clause(t.status)
            THEN Raised("HealthcareAIError",
                        error_message(h.column_names, df.columns, t.error), calls, h, df)
            ELSE Raised(t.status, t.error, calls, h, df)
       ELSE LET missing == MissingLabels(df, h.column_names)
            IN IF missing # <<>>
               THEN Raised("HealthcareAIError",
                           error_message(h.column_names, df.columns,
                                         KeyErrorNotInIndex(missing)), calls, h, df)
               ELSE Returned(subset(df, h.column_names), <<>>, calls, h, df)

prepare_and_subset(h, df) ==
    LET t     == transform(h.fit_pipeline, df)
        calls == <<Call("transform", df)>>
    IN IF t.status # "ok"
       THEN IF except_clause(t.status)
            THEN Raised("HealthcareAIError",
                        error_message(h.column_names, df.columns, t.error), calls, h, df)
            ELSE Raised(t.status, t.error, calls, h, df)
       ELSE LET missing == MissingLabels(t.frame, h.column_names)
            IN IF missing # <<>>
               THEN IF except_clause("KeyError")
                    THEN Raised("HealthcareAIError",
                                error_message(h.column_names, df.columns,
                                              KeyErrorNotInIndex(missing)), calls, h, df)
                    ELSE Raised("KeyError", KeyErrorNotInIndex(missing), calls, h, df)
               ELSE Returned(subset(t.frame, h.column_names), <<>>, calls, h, df)

(***************************************************************************)
(* TrainedSupervisedModel.make_predictions                                 *)
(***************************************************************************)
\* predictions that go by model_type: a classifier asked for predict_proba
make_predictions_by_model_type(h, df) ==
    LET p == prepare_and_subset(h, df)
    IN IF p.status # "ok" THEN Propagate(p)
       ELSE LET y      == predict(p.self.model, p.frame)
                proba  == p.self.model_type = "classification"
                calls  == Append(p.calls, Call(IF proba THEN "predict_proba" ELSE "predict",
                                               p.frame))
            IN IF y.status # "ok"
               THEN Raised(y.status, y.error, calls, p.self, p.dataframe)
               ELSE Returned(NoFrame,
                             IF proba THEN [i \in 1..Len(y.values) |-> y.values[i] % 2]
                             ELSE y.values,
                             calls, p.self, p.dataframe)

make_predictions(h, df) ==
    LET p == prepare_and_subset(h, df)
    IN IF p.status # "ok" THEN Propagate(p)
       ELSE LET y     == predict(p.self.model, p.frame)
                calls == Append(p.calls, Call("predict", p.frame))
            IN IF y.status # "ok"
               THEN Raised(y.status, y.error, calls, p.self, p.dataframe)
               ELSE Returned(NoFrame, y.values, calls, p.self, p.dataframe)

(***************************************************************************)
(* TrainedSupervisedModel.make_factors                                     *)
(***************************************************************************)
\* the names counted from 0
reason_col_names_from_zero(number_top_features) ==
    [i \in 1..number_top_features |-> "Factor" \o ToString(i - 1) \o "TXT"]

\* 'Factor{}TXT'.format(i) for i in range(1, number_top_features + 1)
reason_col_names(number_top_features) ==
    [i \in 1..number_top_features |-> "Factor" \o ToString(i) \o "TXT"]

make_factors(h, df, number_top_features) ==
    LET p == prepare_and_subset(h, df)
    IN IF p.status # "ok" THEN Propagate(p)
       ELSE IF ~HasColumn(p.dataframe, p.self.grain_column)
       THEN Raised("KeyError", KeyErrorNotInIndex(<<p.self.grain_column>>),
                   p.calls, p.self, p.dataframe)
       ELSE LET results  == GetItem(p.dataframe, <<p.self.grain_column>>)
                names    == reason_col_names(number_top_features)
                top      == top_k_features(p.frame, p.self.feature_model, number_top_features)
                calls    == Append(p.calls, Call("top_k_features", p.frame))
            IN IF top.status # "ok"
               THEN Raised(top.status, top.error, calls, p.self, p.dataframe)
               ELSE LET reasons_df == DataFrame(top.names, names, p.dataframe.index)
                    IN Returned(concat(results, reasons_df, p.dataframe.index), <<>>,
                                calls, p.self, p.dataframe)

(***************************************************************************)
(* TrainedSupervisedModel.make_predictions_with_k_factors                  *)
(***************************************************************************)
\* the predictions made first, the factors second
make_predictions_with_k_factors_predictions_first(h, df, number_top_features) ==
    LET y == make_predictions(h, df)
    IN IF y.status # "ok" THEN Propagate(y)
       ELSE LET f == make_factors(y.self, y.dataframe, number_top_features)
                calls == y.calls \o f.calls
            IN IF f.status # "ok" THEN [Propagate(f) EXCEPT !.calls = calls]
               ELSE Returned(SetItem(f.frame, f.self.prediction_column, y.values), <<>>,
                             calls, f.self, f.dataframe)

\* the predictions written into the caller's dataframe as well
make_predictions_with_k_factors_in_place(h, df, number_top_features) ==
    LET f == make_factors(h, df, number_top_features)
    IN IF f.status # "ok" THEN Propagate(f)
       ELSE LET y == make_predictions(f.self, f.dataframe)
                calls == f.calls \o y.calls
            IN IF y.status # "ok" THEN [Propagate(y) EXCEPT !.calls = calls]
               ELSE Returned(SetItem(f.frame, y.self.prediction_column, y.values), <<>>,
                             calls, y.self,
                             SetItem(y.dataframe, y.self.prediction_column, y.values))

make_predictions_with_k_factors(h, df, number_top_features) ==
    LET f == make_factors(h, df, number_top_features)
    IN IF f.status # "ok" THEN Propagate(f)
       ELSE LET y == make_predictions(f.self, f.dataframe)
                calls == f.calls \o y.calls
            IN IF y.status # "ok" THEN [Propagate(y) EXCEPT !.calls = calls]
               ELSE Returned(SetItem(f.frame, y.self.prediction_column, y.values), <<>>,
                             calls, y.self, y.dataframe)

(***************************************************************************)
(* TrainedSupervisedModel.create_all                                       *)
(***************************************************************************)
\* the attributes a TrainedSupervisedModel has that can be called
Methods ==
    {"save", "make_predictions", "make_factors", "prepare_and_subset",
     "make_predictions_with_k_factors", "create_all", "create_catalyst",
     "get_roc_auc", "roc_curve_plot"}

\* self.create_predictions_factors is looked up first and the class defines no
\* attribute of that name: the call ends there, and the concatenation that
\* follows is never reached
create_all(h, original_df) ==
    IF "create_predictions_factors" \notin Methods
    THEN Raised("AttributeError", <<"create_predictions_factors">>, <<>>, h, original_df)
    ELSE Raised("unreachable", <<>>, <<>>, h, original_df)

(***************************************************************************)
(* TrainedSupervisedModel.save                                             *)
(***************************************************************************)
\* io.save_object_as_pickle(filename, object): the file holds the object
save_object_as_pickle(fs, filename, object) ==
    {f \in fs : f.name # filename} \cup {[name |-> filename, object |-> object]}

save(h, df, fs, filename) ==
    [Returned(NoFrame, <<>>, <<[fn |-> "save_object_as_pickle", cols |-> <<>>],
                              [fn |-> "print", cols |-> <<>>]>>, h, df)
        EXCEPT !.message = <<"Model saved as", filename>>]
    @@ [files |-> save_object_as_pickle(fs, filename, h)]

(***************************************************************************)
(* The objects and the dataframes of the model.                            *)
(***************************************************************************)
\* the columns a caller's dataframe is made of
AllColumns == <<"id", "age", "bp", "notes">>

ColumnCode(c) == CHOOSE j \in 1..Len(AllColumns) : AllColumns[j] = c

\* the cell of column c in a row of kind s: rows of different kinds differ in
\* every column, and in which of age and bp is the larger
RawValue(s, c) == (s * ColumnCode(c) * ColumnCode(c) + s) % 7

RowKinds == {1, 2}

RawColumns ==
    {<<"notes", "bp", "id", "age">>, <<"id", "age", "notes">>, <<"notes", "bp">>}

\* the dataframes a caller passes: a default index 0, 1, ...
RawFrames ==
    {[columns |-> cols,
      index   |-> [i \in 1..Len(rows) |-> i - 1],
      data    |-> [i \in 1..Len(rows) |-> [j \in 1..Len(cols) |-> RawValue(rows[i], cols[j])]]]
        : cols \in RawColumns, rows \in SeqsUpTo(RowKinds, MaxRows)}

Working == [raises |-> "none", key |-> ""]

\* fitted pipelines: one that keeps the columns, one that drops bp, one that
\* adds bp, and two that fail inside transform
Pipelines ==
    {[drops |-> {}, injects |-> <<>>, raises |-> "none", key |-> ""],
     [drops |-> {"bp"}, injects |-> <<>>, raises |-> "none", key |-> ""],
     [drops |-> {}, injects |-> <<"bp">>, raises |-> "none", key |-> ""],
     [drops |-> {}, injects |-> <<>>, raises |-> "KeyError", key |-> "zip"],
     [drops |-> {}, injects |-> <<>>, raises |-> "ValueError", key |-> "could not convert"]}

Identity == [drops |-> {}, injects |-> <<>>, raises |-> "none", key |-> ""]

\* fitted models and feature models: working, or failing with a KeyError
Models == {Working, [raises |-> "KeyError", key |-> "coef"]}

\* the objects __init__ builds; at most one collaborator fails
Objects ==
    {h \in [model : Models, feature_model : Models, fit_pipeline : Pipelines,
            column_names : {<<"age", "bp">>, <<"bp", "age">>, <<"id", "age">>},
            model_type : {"classification", "regression"},
            grain_column : {"id"},
            prediction_column : {"Prediction", "id", "Factor1TXT"},
            y_pred : {<<1, 0>>}, y_actual : {<<1, 1>>}] :
        /\ (h.model # Working \/ h.feature_model # Working) => h.fit_pipeline = Identity
        /\ h.model = Working \/ h.feature_model = Working}

Filenames == {"model.pkl"}

NoCall ==
    [op |-> "init", k |-> 0, status |-> "ok", returned |-> FALSE, frame |-> NoFrame,
     values |-> <<>>, message |-> <<>>, calls |-> <<>>]

Init ==
    /\ self \in Objects
    /\ dataframe \in RawFrames
    /\ files = {}
    /\ last = NoCall

\* a call ends: the object and the dataframe are as the call leaves them
Finish(op, k, r) ==
    /\ self' = r.self
    /\ dataframe' = r.dataframe
    /\ last' = [op |-> op, k |-> k, status |-> r.status, returned |-> r.returned,
                frame |-> r.frame, values |-> r.values, message |-> r.message,
                calls |-> r.calls]

\* the numbers of top features a caller asks for: as many as there are features
\* at most
TopK == 0..Min(MaxK, Len(self.column_names))

Save ==
    \E filename \in Filenames :
        LET r == save(self, dataframe, files, filename)
        IN Finish("save", 0, r) /\ files' = r.files

Prepare ==
    Finish("prepare_and_subset", 0, prepare_and_subset(self, dataframe))
    /\ UNCHANGED files

Predict ==
    Finish("make_predictions", 0, make_predictions(self, dataframe))
    /\ UNCHANGED files

Factors ==
    \E k \in TopK :
        Finish("make_factors", k, make_factors(self, dataframe, k))
        /\ UNCHANGED files

PredictWithFactors ==
    \E k \in TopK :
        Finish("make_predictions_with_k_factors", k,
               make_predictions_with_k_factors(self, dataframe, k))
        /\ UNCHANGED files

CreateAll ==
    Finish("create_all", 0, create_all(self, dataframe))
    /\ UNCHANGED files

Next == Save \/ Prepare \/ Predict \/ Factors \/ PredictWithFactors \/ CreateAll

Spec == Init /\ [][Next]_vars

(***************************************************************************)
(* What the properties speak of.                                           *)
(***************************************************************************)
\* the dataframe the fitted pipeline makes of the caller's dataframe
Transformed == transform(self.fit_pipeline, dataframe)

\* the required names that are no column of the transformed dataframe
MissingNames == {c \in Range(self.column_names) : c \notin Range(Transformed.frame.columns)}

\* the pieces of a message that follow the piece marker
After(message, marker) ==
    LET at == CHOOSE i \in 1..Len(message) : message[i] = marker
    IN SubSeq(message, at + 1, Len(message))

\* the names of the collaborator calls, in order
CallNames == [i \in 1..Len(last.calls) |-> last.calls[i].fn]

\* the cell of row i, required column c, as the pipeline leaves it
PreparedCell(i, c) ==
    IF HasColumn(dataframe, c) /\ c \notin self.fit_pipeline.drops
    THEN Scaled(dataframe.data[i][FirstPosition(dataframe, c)])
    ELSE Imputed

PreparedRow(i) == [j \in 1..Len(self.column_names) |-> PreparedCell(i, self.column_names[j])]

FactorLabels == <<"Factor1TXT", "Factor2TXT", "Factor3TXT">>

\* C1: when a required name is no column of the transformed dataframe,
\* prepare_and_subset, make_predictions and make_factors each end with a
\* HealthcareAIError and return nothing; the message gives the required names,
\* the columns of the caller's dataframe, and then every missing name.
C1_MissingColumnRaises ==
    (/\ last.op \in {"prepare_and_subset", "make_predictions", "make_factors"}
     /\ Transformed.status = "ok"
     /\ MissingNames # {})
    => /\ last.status = "HealthcareAIError"
       /\ ~last.returned
       /\ last.frame = NoFrame /\ last.values = <<>>
       /\ Contains(last.message, <<"Required fields:">> \o self.column_names
                                 \o <<"Given fields:">> \o dataframe.columns
                                 \o <<"Likely missing field(s):">>)
       /\ MissingNames \subseteq Range(After(last.message, "Likely missing field(s):"))

C1_Witness ==
    /\ last.op = "make_factors"
    /\ last.status = "HealthcareAIError"
    /\ Transformed.status = "ok"
    /\ Cardinality(MissingNames) = 2
    /\ Transformed.frame.columns # dataframe.columns

\* C2 as claimed: a HealthcareAIError is raised exactly when the projection of
\* the transformed dataframe misses a required name, and a failure inside
\* transform reaches the caller as it was raised.
C2_OnlyProjectionIsWrapped ==
    last.op \in {"prepare_and_subset", "make_predictions", "make_factors",
                 "make_predictions_with_k_factors"}
    => /\ last.status = "HealthcareAIError"
            <=> (Transformed.status = "ok" /\ MissingNames # {})
       /\ Transformed.status # "ok"
            => (last.status = Transformed.status /\ last.message = Transformed.error)

\* C2: a HealthcareAIError is raised exactly when the try block of
\* prepare_and_subset ends with a KeyError: the projection misses a required
\* name, or transform itself raises a KeyError.  Any other failure of transform,
\* and any failure of the model or of the attribution routine, a KeyError
\* included, reaches the caller as it was raised.
C2_KeyErrorOfTryBlockIsWrapped ==
    last.op \in {"prepare_and_subset", "make_predictions", "make_factors",
                 "make_predictions_with_k_factors"}
    => /\ last.status = "HealthcareAIError"
            <=> \/ Transformed.status = "KeyError"
                \/ (Transformed.status = "ok" /\ MissingNames # {})
       /\ Transformed.status \notin {"ok", "KeyError"}
            => (last.status = Transformed.status /\ last.message = Transformed.error)
       /\ (/\ Transformed.status = "ok" /\ MissingNames = {}
           /\ self.model.raises # "none"
           /\ last.op = "make_predictions")
            => (last.status = self.model.raises /\ last.message = <<self.model.key>>)
       /\ (/\ Transformed.status = "ok" /\ MissingNames = {}
           /\ self.feature_model.raises # "none"
           /\ HasColumn(dataframe, self.grain_column)
           /\ last.op \in {"make_factors", "make_predictions_with_k_factors"})
            => (last.status = self.feature_model.raises
                /\ last.message = <<self.feature_model.key>>)

C2_Witness ==
    /\ last.op = "make_predictions"
    /\ self.model.raises = "KeyError"
    /\ last.status = "KeyError"
    /\ last.message = <<self.model.key>>

\* C3: make_predictions_with_k_factors returns what make_factors returns with
\* exactly one more column, the last, labelled prediction_column and holding
\* what make_predictions returns, row for row, whatever prediction_column is.
C3_OneTrailingPredictionColumn ==
    (last.op = "make_predictions_with_k_factors" /\ last.status = "ok")
    => LET f == make_factors(self, dataframe, last.k)
           y == make_predictions(self, dataframe)
       IN /\ last.frame.columns = Append(f.frame.columns, self.prediction_column)
          /\ last.frame.index = f.frame.index
          /\ \A i \in 1..NRows(f.frame) :
                last.frame.data[i] = Append(f.frame.data[i], y.values[i])

C5_PreparedIsSubset ==
    /\ (last.op = "prepare_and_subset" /\ last.status = "ok")
       => /\ last.frame.columns = self.column_names
          /\ last.frame.index = Transformed.frame.index
          /\ \A i \in 1..NRows(Transformed.frame) :
                \A j \in 1..Len(self.column_names) :
                    last.frame.data[i][j]
                      = Transformed.frame.data[i][FirstPosition(Transformed.frame,
                                                                self.column_names[j])]
          /\ \A i \in 1..NRows(Transformed.frame) :
                Len(last.frame.data[i]) = Len(self.column_names)
    /\ (last.op = "prepare_and_subset" /\ Transformed.status = "ok" /\ MissingNames = {})
       => last.status = "ok"
    /\ \A n \in 1..Len(last.calls) :
          last.calls[n].fn \in {"predict", "top_k_features"}
            => last.calls[n].cols = self.column_names

C5_Witness ==
    /\ last.op = "prepare_and_subset"
    /\ last.status = "ok"
    /\ NRows(dataframe) = 2
    /\ self.column_names = <<"age", "bp">>
    /\ dataframe.columns = <<"notes", "bp", "id", "age">>

\* C6: for a dataframe from which the pipeline makes every required column,
\* make_predictions returns one value per row, the i-th being the model's
\* value for the i-th row, and gets them from model.predict whatever
\* model_type is.
C6_OnePredictionPerRow ==
    (last.op = "make_predictions" /\ last.status = "ok")
    => /\ last.returned
       /\ Len(last.values) = NRows(dataframe)
       /\ \A i \in 1..NRows(dataframe) : last.values[i] = Score(PreparedRow(i))
       /\ CallNames = <<"transform", "predict">>

C6_Witness ==
    /\ last.op = "make_predictions"
    /\ last.status = "ok"
    /\ self.model_type = "classification"
    /\ HasColumn(dataframe, self.grain_column)
    /\ NRows(dataframe) = 2
    /\ last.values[1] # last.values[2]

\* C7: for a dataframe that make_predictions_with_k_factors accepts, create_all
\* returns the columns of the caller's dataframe followed by those of
\* make_predictions_with_k_factors, one row per row of the caller's dataframe.
C7_CreateAllConcatenates ==
    (/\ last.op = "create_all"
     /\ make_predictions_with_k_factors(self, dataframe, 0).status = "ok")
    => /\ last.status = "ok"
       /\ last.returned
       /\ SubSeq(last.frame.columns, 1, Len(dataframe.columns)) = dataframe.columns
       /\ last.frame.index = dataframe.index

\* C8: no call, whether it returns or raises, changes an attribute of the
\* object or the caller's dataframe.
C8_NothingChanged == [][self' = self /\ dataframe' = dataframe]_vars

C8_Witness ==
    /\ last.op = "make_predictions_with_k_factors"
    /\ last.status = "ok"
    /\ NRows(dataframe) = 2
    /\ \E f \in files : f.object = self

\* C9: make_predictions_with_k_factors runs make_factors and then
\* make_predictions: transform twice on the caller's dataframe, the attribution
\* routine once and before the model; with a required column missing it raises
\* HealthcareAIError in the first prepare, neither the attribution routine nor
\* the model is called, and nothing is returned.
C9_FactorsThenPredictions ==
    last.op = "make_predictions_with_k_factors"
    => /\ last.status = "ok"
            => /\ CallNames = <<"transform", "top_k_features", "transform", "predict">>
               /\ last.calls[1].cols = dataframe.columns
               /\ last.calls[3].cols = dataframe.columns
       /\ (Transformed.status = "ok" /\ MissingNames # {})
            => /\ last.status = "HealthcareAIError"
               /\ CallNames = <<"transform">>
               /\ ~last.returned
               /\ last.frame = NoFrame
       /\ (/\ Transformed.status = "ok" /\ MissingNames = {}
           /\ HasColumn(dataframe, self.grain_column)
           /\ self.feature_model.raises # "none")
            => CallNames = <<"transform", "top_k_features">>

C9_Witness ==
    /\ last.op = "make_predictions_with_k_factors"
    /\ last.status = "ok"
    /\ last.k = 2
    /\ Len(last.calls) = 4

C9_WitnessMissing ==
    /\ last.op = "make_predictions_with_k_factors"
    /\ last.status = "HealthcareAIError"
    /\ Transformed.status = "ok"
    /\ Len(last.calls) = 1

C10_WitnessDropped ==
    /\ last.op = "prepare_and_subset"
    /\ last.status = "HealthcareAIError"
    /\ "bp" \in Range(self.column_names)
    /\ Range(self.column_names) \subseteq Range(dataframe.columns)
====
